---------------------------- MODULE Spec2Model ----------------------------
(***************************************************************************)
(* A model of src/src/OTU_cleaver.py: the cluster-cleaving pipeline        *)
(*   per_sample_stats_parse -> stats_parse -> swarms_parse ->              *)
(*   struct_parse -> add_abundance_values -> per_cluster_stats ->          *)
(*   per_cluster_swarms -> fasta_parse.                                    *)
(*                                                                         *)
(* Amplicon identifiers are modelled as naturals whose numeric order is    *)
(* the lexical order of the identifier strings.  The 256-bucket list of    *)
(* dicts (index = int(id[0:2], 16)) is flattened into one dict: every      *)
(* lookup in the source goes to the bucket of the key it looks up.         *)
(* A Python dict is a sequence of [key, val] records in insertion order.   *)
(***************************************************************************)
EXTENDS Integers, Sequences, FiniteSets, TLC

(* ---------------------------- bounds ----------------------------------- *)
NumAmplicons == 5
MaxLines == 4
MaxClusters == 2
MaxSeeds == 2
MaxAbundance == 2
MaxUnread == 1
NumSampleSeeds == 3
MaxSampleRecords == 22
NumStatsSeeds == 3
MaxSeedAbundance == 3
MaxStatsLines == 3
NumSwarmAmplicons == 4
MaxSwarmLines == 3
MaxSwarmSize == 2
NumFastaAmplicons == 3
MaxFastaLines == 5
MaxSequenceLines == 2

Amplicons == 1..NumAmplicons

VARIABLES
    pc,                          \* position in main()
    seeds,                       \* surviving local-seed candidates (dict keys)
    global_seeds,                \* candidate -> original seed of its cluster
    struct_file,                 \* the merge log: lines [father, son, cluster_id]
    number_of_seeds,             \* remaining-seed counter of the scan being run
                                 \* (swarms_parse, then struct_parse)
    previous_cluster_id,
    global_seed,
    has_a_local_seed,
    clusters,                    \* sub-clusters of the cluster being replayed
    new_clusters,                \* list returned by struct_parse
    swarms,                      \* abundance index: amplicon -> abundance
    new_clusters_with_abundance,
    new_stats,
    per_sample_stats,            \* per_sample_stats_parse: seed -> occurrences
    number_of_samples,
    previous_sample,
    threshold,                   \* percentage * number_of_samples, a fraction
    selected,                    \* the candidates per_sample_stats_parse returned
    stats_file,                  \* global stats: the records of the file
    sample_seeds,                \* per-sample stats file: the seeds of the
                                 \* records of the sample being read
    samples_of,                  \* per-sample stats file: seed -> number of
                                 \* samples with a record of that seed
    swarms_file,                 \* membership file: one token list per cluster
    written,                     \* the output files opened for writing
    new_swarms,                  \* the lines printed to the membership output
    new_representatives,         \* the records printed to the sequence output
    fasta_file,                  \* sequence file: header and sequence lines
    fasta,                       \* fasta_parse: seed -> [total, sequence lines]
    amplicon                     \* fasta_parse: amplicon of the last header

StructVars == <<struct_file, number_of_seeds, previous_cluster_id, global_seed,
                has_a_local_seed, clusters, new_clusters>>

Finalizer == <<swarms, new_clusters_with_abundance, new_stats>>

SampleVars == <<per_sample_stats, number_of_samples, previous_sample,
                sample_seeds, samples_of>>

StatsVars == <<threshold, selected, stats_file>>

SwarmVars == <<swarms_file>>

OutputVars == <<written, new_swarms, new_representatives>>

FastaVars == <<fasta_file, fasta, amplicon>>

vars == <<pc, seeds, global_seeds, StructVars, Finalizer, SampleVars, StatsVars,
          SwarmVars, OutputVars, FastaVars>>

(* ------------------------- Python dict helpers -------------------------- *)
Range(f) == {f[x] : x \in DOMAIN f}

DictKeys(d) == {d[i].key : i \in DOMAIN d}

DictHas(d, k) == \E i \in DOMAIN d : d[i].key = k

DictGet(d, k) == d[CHOOSE i \in DOMAIN d : d[i].key = k].val

\* d[k] = v : an existing key keeps its place, a new key goes last
DictSet(d, k, v) ==
    IF DictHas(d, k)
    THEN [i \in DOMAIN d |-> IF d[i].key = k THEN [key |-> k, val |-> v] ELSE d[i]]
    ELSE Append(d, [key |-> k, val |-> v])

\* del d[k]
DictDel(d, k) == SelectSeq(d, LAMBDA e : e.key # k)

(* ------------------------------ struct_parse ---------------------------- *)
global_seeds_set == Range(global_seeds)

\* lines 182-191: a change of cluster_id saves the previous sub-clusters (if
\* any) and initialises the per-cluster parameters
SavePrevious(nc, cl) == IF cl # <<>> THEN Append(nc, cl) ELSE nc

\* the sub-cluster of the original seed created whether or not the cluster is
\* flagged (the test of line 190 left out)
InitClusterUnguarded(father) == << [key |-> father, val |-> {father}] >>

InitCluster(father) ==
    IF father \in global_seeds_set
    THEN << [key |-> father, val |-> {father}] >>
    ELSE << >>

\* lines 209-212: the first sub-cluster (dict order) holding father gets son
FatherSearch(cl, father, son) ==
    LET i == CHOOSE j \in DOMAIN cl :
                 /\ father \in cl[j].val
                 /\ \A k \in 1..(j-1) : father \notin cl[k].val
    IN  [cl EXCEPT ![i].val = @ \cup {son}]

\* lines 216-218: every sub-cluster holding son gets father (no break); an
\* edge that matches nothing leaves the sub-clusters as they are
OrphanSearch(cl, father, son) ==
    [j \in DOMAIN cl |->
        IF son \in cl[j].val
        THEN [cl[j] EXCEPT !.val = @ \cup {father}]
        ELSE cl[j]]

\* son put into every sub-cluster, whichever holds father
PopulateEverySubCluster(cl, father, son) ==
    [j \in DOMAIN cl |-> [cl[j] EXCEPT !.val = @ \cup {son}]]

\* lines 208-218
Populate(cl, father, son) ==
    IF \E j \in DOMAIN cl : father \in cl[j].val
    THEN FatherSearch(cl, father, son)
    ELSE OrphanSearch(cl, father, son)

\* the state of the loop of struct_parse as a record, one step per line read
StructState(pid, gs, hls, cl, nc, n, stop) ==
    [previous_cluster_id |-> pid, global_seed |-> gs, has_a_local_seed |-> hls,
     clusters |-> cl, new_clusters |-> nc, number_of_seeds |-> n, stopped |-> stop]

\* lines 170-173
StructInit(cands) ==
    StructState(0, 0, FALSE, << >>, << >>, Cardinality(cands), FALSE)

\* lines 193-195: the remaining-seed counter stop
SeedsExhausted(n) == n = 0

\* lines 177-218: the loop body for one line; withStop = FALSE is the variant
\* of the loop that has no "if number_of_seeds == 0: break"
StructStep(st, line, cands, withStop) ==
    LET new  == line.cluster_id # st.previous_cluster_id
        nc   == IF new THEN SavePrevious(st.new_clusters, st.clusters)
                       ELSE st.new_clusters
        pid  == IF new THEN line.cluster_id ELSE st.previous_cluster_id
        gs   == IF new THEN line.father ELSE st.global_seed
        hls  == IF new THEN line.father \in global_seeds_set
                       ELSE st.has_a_local_seed
        cl   == IF new THEN InitCluster(line.father) ELSE st.clusters
    IN  IF withStop /\ SeedsExhausted(st.number_of_seeds)
        THEN StructState(pid, gs, hls, cl, nc, st.number_of_seeds, TRUE)
        ELSE IF ~hls
        THEN StructState(pid, gs, hls, cl, nc, st.number_of_seeds, FALSE)
        ELSE IF line.son \in cands
        THEN StructState(pid, gs, hls, DictSet(cl, line.son, {line.son}), nc,
                         st.number_of_seeds - 1, FALSE)
        ELSE StructState(pid, gs, hls, Populate(cl, line.father, line.son), nc,
                         st.number_of_seeds, FALSE)

(* ----------------------- the merge log as an input ---------------------- *)
Line(f, s, c) == [father |-> f, son |-> s, cluster_id |-> c]

LineSet == {Line(f, s, c) : f \in Amplicons, s \in Amplicons, c \in 1..MaxClusters}

\* the original seed of cluster c: the father of its first edge
FirstLineOf(file, c) ==
    CHOOSE i \in DOMAIN file :
        /\ file[i].cluster_id = c
        /\ \A k \in 1..(i-1) : file[k].cluster_id # c

ClusterIds(file) == {file[i].cluster_id : i \in DOMAIN file}

OriginalSeed(file, c) == file[FirstLineOf(file, c)].father

EdgesOf(file, c) == {i \in DOMAIN file : file[i].cluster_id = c}

MembersOf(file, c) ==
    {file[i].father : i \in EdgesOf(file, c)} \cup {file[i].son : i \in EdgesOf(file, c)}

\* A merge log as the clustering writes it: cluster ids start at 1 and grow,
\* the edges of a cluster are contiguous, an edge links two different
\* amplicons of one cluster, the original seed is never a son, no edge is
\* repeated, and a candidate lies in the cluster of its global seed.
LineOK(file, line) ==
    LET c      == line.cluster_id
        last   == IF file = << >> THEN 0 ELSE file[Len(file)].cluster_id
        isNew  == c # last
        seed   == IF isNew THEN line.father ELSE OriginalSeed(file, c)
        before == UNION {MembersOf(file, k) : k \in ClusterIds(file) \ {c}}
    IN  /\ c \in {last, last + 1}
        /\ c >= 1
        /\ line.father # line.son
        /\ line.son # seed
        /\ line.father \notin before
        /\ line.son \notin before
        /\ \A i \in DOMAIN file : file[i] # line
        /\ \A x \in {line.father, line.son} \cap seeds : global_seeds[x] = seed

RECURSIVE LogOK(_, _)
LogOK(file, rest) ==
    IF rest = << >> THEN TRUE
    ELSE LineOK(file, Head(rest)) /\ LogOK(Append(file, Head(rest)), Tail(rest))

(* ------------------------- add_abundance_values ------------------------- *)
\* line 239: the sort key (-abundance, amplicon); Before(x, y) is key(x) < key(y)
\* the sort by decreasing abundance with ties left in reverse name order
BeforeTieReversed(x, y) == \/ x[2] > y[2]
                           \/ (x[2] = y[2] /\ x[1] > y[1])

Before(x, y) == \/ x[2] > y[2]
                \/ (x[2] = y[2] /\ x[1] < y[1])

\* lines 231-239: the members with their abundance, sorted by the key
RECURSIVE SortSwarm(_, _)
SortSwarm(members, ab) ==
    IF members = {} THEN << >>
    ELSE LET m == CHOOSE a \in members :
                      \A b \in members \ {a} : Before(<<a, ab[a]>>, <<b, ab[b]>>)
         IN  <<  <<m, ab[m]>>  >> \o SortSwarm(members \ {m}, ab)

\* lines 241-246: the sub-cluster goes under the first element of its sorted
\* list; the old key is deleted when it differs
Rekey(d, cluster, swarm) ==
    LET seed == swarm[1][1]
    IN  IF seed # cluster
        THEN DictSet(DictDel(d, cluster), seed, swarm)
        ELSE DictSet(d, cluster, swarm)

\* lines 230-246: the loop over the keys of one original cluster (it iterates
\* over new_clusters[i] and writes into the copy)
RECURSIVE SortSuperCluster(_, _, _, _)
SortSuperCluster(super_cluster, copy, ab, k) ==
    IF k > Len(super_cluster) THEN copy
    ELSE SortSuperCluster(
             super_cluster,
             Rekey(copy, super_cluster[k].key, SortSwarm(super_cluster[k].val, ab)),
             ab, k + 1)

\* line 234: swarms[index][amplicon] raises KeyError for an unknown amplicon
AllMembers(nc) ==
    UNION {UNION {nc[i][j].val : j \in DOMAIN nc[i]} : i \in DOMAIN nc}

MissingAbundance(nc, ab) == \E a \in AllMembers(nc) : a \notin DOMAIN ab

\* lines 228-248
add_abundance_values(nc, ab) ==
    [i \in DOMAIN nc |-> SortSuperCluster(nc[i], nc[i], ab, 1)]

(* --------------------------- per_cluster_stats -------------------------- *)
RECURSIVE SumAbundance(_, _)
SumAbundance(swarm, k) ==
    IF k > Len(swarm) THEN 0 ELSE swarm[k][2] + SumAbundance(swarm, k + 1)

Singletons(swarm) == Cardinality({k \in DOMAIN swarm : swarm[k][2] = 1})

\* lines 259-279: the record of one sub-cluster
StatsRecord(e) ==
    << Len(e.val), SumAbundance(e.val, 1), e.key, e.val[1][2], Singletons(e.val),
       "0", "0" >>

\* lines 257-279: the records in the order of the two nested loops
RECURSIVE CollectStats(_, _)
CollectStats(nca, i) ==
    IF i > Len(nca) THEN << >>
    ELSE [j \in DOMAIN nca[i] |-> StatsRecord(nca[i][j])] \o CollectStats(nca, i + 1)

\* the first pass by decreasing seed
BySeedDescending(x, y) == x[3] > y[3]

\* line 284: key = itemgetter(2)
BySeed(x, y) == x[3] < y[3]

\* line 285: key = itemgetter(1, 0), reverse = True
ByAbundanceThenUniques(x, y) ==
    \/ x[2] > y[2]
    \/ (x[2] = y[2] /\ x[1] > y[1])

\* the order of sort pass 1 (line 284) or 2 (line 285)
SortsBefore(pass, x, y) ==
    IF pass = 1 THEN BySeed(x, y) ELSE ByAbundanceThenUniques(x, y)

\* list.sort is stable: an element goes after every element not after it
RECURSIVE InsertSorted(_, _, _)
InsertSorted(sorted, x, pass) ==
    IF sorted = << >> THEN << x >>
    ELSE IF SortsBefore(pass, x, Head(sorted)) THEN << x >> \o sorted
    ELSE << Head(sorted) >> \o InsertSorted(Tail(sorted), x, pass)

RECURSIVE StableSort(_, _)
StableSort(s, pass) ==
    IF s = << >> THEN << >>
    ELSE InsertSorted(StableSort(SubSeq(s, 1, Len(s) - 1), pass), s[Len(s)], pass)

\* lines 251-290
per_cluster_stats(nca) ==
    StableSort(StableSort(CollectStats(nca, 1), 1), 2)

(* -------------------------- per_cluster_swarms -------------------------- *)
\* lines 299-302: one line per sub-cluster, its sorted members as tokens
\* amplicon;size=abundance, in the order of the two nested loops
RECURSIVE per_cluster_swarms(_, _)
per_cluster_swarms(nca, i) ==
    IF i > Len(nca) THEN << >>
    ELSE [j \in DOMAIN nca[i] |-> nca[i][j].val] \o per_cluster_swarms(nca, i + 1)

(* ------------------------------ fasta_parse ----------------------------- *)
\* a line of the sequence file: ">amplicon;size=abundance" or a sequence line
Header(a, n) == [header |-> TRUE, amplicon |-> a, abundance |-> n, sequence |-> << >>]

SequenceLine(sq) == [header |-> FALSE, amplicon |-> 0, abundance |-> 0, sequence |-> sq]

\* lines 316-319: fasta[t[2]] = [t[1]], a later record overwriting an earlier
FastaTargets(stats) ==
    LET last(a) == CHOOSE k \in DOMAIN stats :
                       /\ stats[k][3] = a
                       /\ \A m \in (k+1)..Len(stats) : stats[m][3] # a
    IN  [a \in {stats[k][3] : k \in DOMAIN stats} |-> << stats[last(a)][2] >>]

\* line 320: min([t[3] for t in new_stats]) of a non-empty list
MinAbundance(stats) ==
    CHOOSE n \in {stats[k][4] : k \in DOMAIN stats} :
        \A k \in DOMAIN stats : n <= stats[k][4]

\* the state of the loop of fasta_parse as a record
FastaState(fa, a, stop) == [fasta |-> fa, amplicon |-> a, stopped |-> stop]

\* lines 326-334: the loop body for one line
FastaStep(st, line, min_abundance) ==
    IF line.header
    THEN FastaState(st.fasta, line.amplicon, line.abundance < min_abundance)
    ELSE IF st.amplicon \in DOMAIN st.fasta
    THEN FastaState([st.fasta EXCEPT ![st.amplicon] = Append(@, line.sequence)],
                    st.amplicon, FALSE)
    ELSE FastaState(st.fasta, st.amplicon, FALSE)

\* lines 326-334: the loop, left at the first header below min_abundance
RECURSIVE FastaScan(_, _, _, _)
FastaScan(st, file, k, min_abundance) ==
    IF k > Len(file) \/ st.stopped THEN st
    ELSE FastaScan(FastaStep(st, file[k], min_abundance), file, k + 1, min_abundance)

\* lines 340-344: "abundance, sequence = fasta[index][amplicon]" unpacks a
\* list of exactly two elements and raises ValueError for any other
Unpacks(entry) == Len(entry) = 2

\* lines 337-346: the records printed, up to the first seed whose entry does
\* not unpack (sys.exit(-1) at line 344)
RECURSIVE EmitRecords(_, _, _)
EmitRecords(stats, fa, k) ==
    IF k > Len(stats) THEN [records |-> << >>, ok |-> TRUE]
    ELSE IF ~Unpacks(fa[stats[k][3]]) THEN [records |-> << >>, ok |-> FALSE]
    ELSE LET rest == EmitRecords(stats, fa, k + 1)
             e    == fa[stats[k][3]]
         IN  [records |-> << [amplicon |-> stats[k][3], abundance |-> e[1],
                              sequence |-> e[2]] >> \o rest.records,
              ok |-> rest.ok]

\* lines 307-348 for a whole file and a non-empty new_stats
fasta_parse(file, stats) ==
    LET st == FastaScan(FastaState(FastaTargets(stats), 0, FALSE), file, 1,
                        MinAbundance(stats))
    IN  [fasta |-> st.fasta, amplicon |-> st.amplicon,
         out |-> EmitRecords(stats, st.fasta, 1)]

\* the sequence file of the amplicons of the abundance index: one header and
\* one sequence line per amplicon, by decreasing abundance
RECURSIVE FastaOf(_)
FastaOf(swarm) ==
    IF swarm = << >> THEN << >>
    ELSE << Header(swarm[1][1], swarm[1][2]), SequenceLine(<< "A" >>) >>
         \o FastaOf(Tail(swarm))

(* ------------------------------- main ----------------------------------- *)
\* the inputs of struct_parse as swarms_parse leaves them: every candidate is
\* mapped to the first amplicon of its line, and a candidate that is itself
\* the first amplicon of a line is mapped to itself
GlobalSeedsOK(cands, gsm) ==
    \A c \in cands : gsm[c] \in cands => gsm[gsm[c]] = gsm[c]

\* line 369: PERCENTAGE = 0.05, kept as the fraction 5/100.  The products and
\* comparisons of the source are in binary floating point; for the counts a
\* file can hold they order an integer against the threshold as the exact
\* fraction does.
PercentageNum == 5
PercentageDen == 100

\* line 84
Threshold(n) == [num |-> PercentageNum * n, den |-> PercentageDen]

InitStruct ==
    /\ struct_file = << >>
    /\ previous_cluster_id = 0
    /\ global_seed = 0
    /\ has_a_local_seed = FALSE
    /\ clusters = << >>
    /\ new_clusters = << >>
    /\ swarms = << >>
    /\ new_clusters_with_abundance = << >>
    /\ new_stats = << >>

InitSample ==
    /\ per_sample_stats = << >>
    /\ number_of_samples = 0
    /\ previous_sample = 0
    /\ sample_seeds = {}
    /\ samples_of = << >>

InitStats ==
    /\ threshold = Threshold(0)
    /\ selected = {}
    /\ stats_file = << >>

InitSwarms == swarms_file = << >>

InitOutput ==
    /\ written = {}
    /\ new_swarms = << >>
    /\ new_representatives = << >>

InitFasta ==
    /\ fasta_file = << >>
    /\ fasta = << >>
    /\ amplicon = 0

InitCommon ==
    InitStruct /\ InitSample /\ InitStats /\ InitSwarms /\ InitOutput /\ InitFasta

Init ==
    /\ pc = "struct_parse"
    /\ seeds \in {c \in SUBSET Amplicons : Cardinality(c) <= MaxSeeds}
    /\ global_seeds \in [seeds -> Amplicons]
    /\ GlobalSeedsOK(seeds, global_seeds)
    /\ number_of_seeds = Cardinality(seeds)
    /\ InitCommon

CurrentState ==
    StructState(previous_cluster_id, global_seed, has_a_local_seed, clusters,
                new_clusters, number_of_seeds, FALSE)

SetState(st) ==
    /\ previous_cluster_id' = st.previous_cluster_id
    /\ global_seed' = st.global_seed
    /\ has_a_local_seed' = st.has_a_local_seed
    /\ clusters' = st.clusters
    /\ new_clusters' = st.new_clusters
    /\ number_of_seeds' = st.number_of_seeds

\* the lines of the file that the scan never reads once it has stopped
Unread(file) ==
    {rest \in UNION {[1..n -> LineSet] : n \in 0..MaxUnread} :
        Len(file) + Len(rest) <= MaxLines /\ LogOK(file, rest)}

\* lines 177-218: one line of the merge log is read and replayed
StructLineOf(line) ==
    /\ pc = "struct_parse"
    /\ LineOK(struct_file, line)
    /\ LET st == StructStep(CurrentState, line, seeds, TRUE)
       IN  /\ ~st.stopped
           /\ SetState(st)
           /\ struct_file' = Append(struct_file, line)
           /\ pc' = "struct_parse"
    /\ UNCHANGED <<seeds, global_seeds, Finalizer, SampleVars, StatsVars,
                   SwarmVars, OutputVars, FastaVars>>

\* lines 177-195 and 220: a line is read with the counter at 0; the loop is
\* left and new_clusters returned, whatever the file still holds (rest)
StructBreakOf(line, rest) ==
    /\ pc = "struct_parse"
    /\ LineOK(struct_file, line)
    /\ LET st == StructStep(CurrentState, line, seeds, TRUE)
       IN  /\ st.stopped
           /\ SetState(st)
           /\ struct_file' = Append(struct_file, line) \o rest
           /\ pc' = "add_abundance_values"
    /\ UNCHANGED <<seeds, global_seeds, Finalizer, SampleVars, StatsVars,
                   SwarmVars, OutputVars, FastaVars>>

\* lines 177 and 220: the file ends; new_clusters is returned
StructEOF ==
    /\ pc = "struct_parse"
    /\ pc' = "add_abundance_values"
    /\ UNCHANGED <<seeds, global_seeds, StructVars, Finalizer, SampleVars, StatsVars,
                   SwarmVars, OutputVars, FastaVars>>

\* the run goes on to per_cluster_stats with the index incomplete
KeyErrorIgnored(nc, ab) == "per_cluster_stats"

\* lines 234 and 379-385: the KeyError is caught nowhere and ends the run;
\* otherwise main goes on to per_cluster_stats
AfterAddAbundance(nc, ab) ==
    IF MissingAbundance(nc, ab) THEN "abort" ELSE "per_cluster_stats"

\* lines 379-381, with ab the abundance index that swarms_parse built (lines
\* 152-154); an amplicon missing from the index raises KeyError at line 234
AddAbundanceOf(ab) ==
    /\ pc = "add_abundance_values"
    /\ swarms' = ab
    /\ pc' = AfterAddAbundance(new_clusters, ab)
    /\ IF MissingAbundance(new_clusters, ab)
       THEN UNCHANGED new_clusters_with_abundance
       ELSE new_clusters_with_abundance' = add_abundance_values(new_clusters, ab)
    /\ UNCHANGED <<seeds, global_seeds, StructVars, new_stats, SampleVars, StatsVars,
                   SwarmVars, OutputVars, FastaVars>>

\* lines 384-385: the statistics are computed and printed (lines 286-288)
PerClusterStats ==
    /\ pc = "per_cluster_stats"
    /\ new_stats' = per_cluster_stats(new_clusters_with_abundance)
    /\ written' = written \cup {"stats2"}
    /\ pc' = "per_cluster_swarms"
    /\ UNCHANGED <<seeds, global_seeds, StructVars, swarms,
                   new_clusters_with_abundance, SampleVars, StatsVars,
                   SwarmVars, new_swarms, new_representatives, FastaVars>>

\* line 386
PerClusterSwarms ==
    /\ pc = "per_cluster_swarms"
    /\ new_swarms' = per_cluster_swarms(new_clusters_with_abundance, 1)
    /\ written' = written \cup {"swarms2"}
    /\ pc' = "fasta_parse"
    /\ UNCHANGED <<seeds, global_seeds, StructVars, Finalizer, SampleVars, StatsVars,
                   SwarmVars, new_representatives, FastaVars>>

\* line 387 for the sequence file "file": min() of an empty list raises
\* ValueError at line 320, before the output file is opened (line 336)
FastaParseOf(file) ==
    /\ pc = "fasta_parse"
    /\ IF new_stats = << >>
       THEN /\ pc' = "fasta_abort"
            /\ UNCHANGED <<written, new_representatives, FastaVars>>
       ELSE LET r == fasta_parse(file, new_stats)
            IN  /\ fasta_file' = file
                /\ fasta' = r.fasta
                /\ amplicon' = r.amplicon
                /\ written' = written \cup {"fas2"}
                /\ new_representatives' = r.out.records
                /\ pc' = IF r.out.ok THEN "done" ELSE "exit"
    /\ UNCHANGED <<seeds, global_seeds, StructVars, Finalizer, SampleVars, StatsVars,
                   SwarmVars, new_swarms>>

\* the sequence file lists the amplicons of the abundance index
FastaParse == FastaParseOf(FastaOf(SortSwarm(DOMAIN swarms, swarms)))

StructLine ==
    /\ Len(struct_file) < MaxLines
    /\ \E line \in LineSet : StructLineOf(line)

StructBreak ==
    /\ Len(struct_file) < MaxLines
    /\ pc = "struct_parse"
    /\ SeedsExhausted(number_of_seeds)
    /\ \E line \in LineSet :
          /\ LineOK(struct_file, line)
          /\ \E rest \in Unread(Append(struct_file, line)) : StructBreakOf(line, rest)

\* the index holds the members of the sub-clusters, or lacks one of them
AddAbundance ==
    /\ pc = "add_abundance_values"
    /\ \E known \in {AllMembers(new_clusters)}
                    \cup {AllMembers(new_clusters) \ {a} : a \in AllMembers(new_clusters)} :
          \E ab \in [known -> 1..MaxAbundance] : AddAbundanceOf(ab)

Next ==
    \/ StructLine
    \/ StructBreak
    \/ StructEOF
    \/ AddAbundance
    \/ PerClusterStats
    \/ PerClusterSwarms
    \/ FastaParse

Spec == Init /\ [][Next]_vars

(* ------------------------ per_sample_stats_parse ------------------------ *)
SampleSeeds == 1..NumSampleSeeds

\* line 85: v >= threshold, with v strictly above the threshold only
AboveThreshold(v, thr) == v * thr.den > thr.num

\* line 85: v >= threshold
AtLeastThreshold(v, thr) == v * thr.den >= thr.num

\* lines 75-78
CountSeed(stats, seed) ==
    IF seed \in DOMAIN stats
    THEN [stats EXCEPT ![seed] = @ + 1]
    ELSE stats @@ (seed :> 1)

\* the number of records read so far: each one was counted once
RECURSIVE SumCounts(_, _)
SumCounts(stats, keys) ==
    IF keys = {} THEN 0
    ELSE LET k == CHOOSE x \in keys : TRUE
         IN  stats[k] + SumCounts(stats, keys \ {k})

RecordsRead(stats) == SumCounts(stats, DOMAIN stats)

\* lines 85-86
SelectSeeds(stats, thr) == {k \in DOMAIN stats : AtLeastThreshold(stats[k], thr)}

\* lines 71-81: one record (sample, cloud, mass, seed, seed_abundance) is read;
\* the records of a sample follow one another, samples are numbered in the
\* order of the file
SampleLine ==
    /\ pc = "per_sample_stats_parse"
    /\ RecordsRead(per_sample_stats) < MaxSampleRecords
    /\ \E seed \in SampleSeeds, sample \in {previous_sample, previous_sample + 1} :
          /\ sample >= 1
          /\ per_sample_stats' = CountSeed(per_sample_stats, seed)
          /\ IF sample # previous_sample
             THEN /\ previous_sample' = sample
                  /\ number_of_samples' = number_of_samples + 1
             ELSE UNCHANGED <<previous_sample, number_of_samples>>
          /\ sample_seeds' = IF sample # previous_sample
                             THEN {seed} ELSE sample_seeds \cup {seed}
          /\ samples_of' = IF sample = previous_sample /\ seed \in sample_seeds
                           THEN samples_of ELSE CountSeed(samples_of, seed)
    /\ UNCHANGED <<pc, seeds, global_seeds, StructVars, Finalizer, StatsVars,
                   SwarmVars, OutputVars, FastaVars>>

\* lines 83-88 and 372-373: the file ends, the threshold and the candidates
\* are returned
SampleEOF ==
    /\ pc = "per_sample_stats_parse"
    /\ threshold' = Threshold(number_of_samples)
    /\ seeds' = SelectSeeds(per_sample_stats, threshold')
    /\ selected' = seeds'
    /\ pc' = "stats_parse"
    /\ UNCHANGED <<global_seeds, StructVars, Finalizer, SampleVars, stats_file,
                   SwarmVars, OutputVars, FastaVars>>

InitSampleStats ==
    /\ pc = "per_sample_stats_parse"
    /\ seeds = {}
    /\ global_seeds = << >>
    /\ number_of_seeds = 0
    /\ InitCommon

NextSample == SampleLine \/ SampleEOF

SpecSample == InitSampleStats /\ [][NextSample]_vars

(* ------------------------------ stats_parse ----------------------------- *)
StatsSeeds == 1..NumStatsSeeds

\* a record of the global stats file: a cluster of one amplicon, or of a seed
\* and a second amplicon no more abundant than the seed
Record(cloud, mass, seed, seed_abundance, singletons) ==
    [cloud |-> cloud, mass |-> mass, seed |-> seed,
     seed_abundance |-> seed_abundance, singletons |-> singletons]

One(b) == IF b THEN 1 ELSE 0

RecordSet ==
    {Record(1, sa, s, sa, One(sa = 1)) : s \in StatsSeeds, sa \in 1..MaxSeedAbundance}
    \cup
    {Record(2, t[2] + t[3], t[1], t[2], One(t[2] = 1) + One(t[3] = 1)) :
        t \in {u \in StatsSeeds \X (1..MaxSeedAbundance) \X (1..MaxSeedAbundance) :
                  u[3] <= u[2]}}

\* each cluster has its own seed
RecordOK(file, r) == \A i \in DOMAIN file : file[i].seed # r.seed

RECURSIVE RecordsOK(_, _)
RecordsOK(file, rest) ==
    IF rest = << >> THEN TRUE
    ELSE RecordOK(file, Head(rest)) /\ RecordsOK(Append(file, Head(rest)), Tail(rest))

UnreadRecords(file) ==
    {rest \in UNION {[1..n -> RecordSet] : n \in 0..MaxUnread} :
        Len(file) + Len(rest) <= MaxStatsLines /\ RecordsOK(file, rest)}

\* line 111, with <= in the place of <
NotAboveThreshold(seed_abundance, thr) == seed_abundance * thr.den <= thr.num

\* line 111: int(seed_abundance) < threshold
BelowThreshold(seed_abundance, thr) == seed_abundance * thr.den < thr.num

\* line 117, with the threshold counted once
HostsSecondarySeedOnce(r, thr) ==
    /\ r.cloud > 1
    /\ r.mass * thr.den >= thr.num + r.singletons * thr.den

\* line 117: int(cloud) > 1 and int(mass) >= 2 * threshold + int(singletons)
HostsSecondarySeed(r, thr) ==
    /\ r.cloud > 1
    /\ r.mass * thr.den >= 2 * thr.num + r.singletons * thr.den

\* lines 117-121
EliminateGlobalSeed(cands, r, thr) ==
    IF HostsSecondarySeed(r, thr) THEN cands \ {r.seed} ELSE cands

\* lines 106-121: a record at or above the threshold is read
StatsLine ==
    /\ pc = "stats_parse"
    /\ Len(stats_file) < MaxStatsLines
    /\ \E r \in RecordSet :
          /\ RecordOK(stats_file, r)
          /\ ~BelowThreshold(r.seed_abundance, threshold)
          /\ seeds' = EliminateGlobalSeed(seeds, r, threshold)
          /\ stats_file' = Append(stats_file, r)
    /\ UNCHANGED <<pc, global_seeds, StructVars, Finalizer, SampleVars,
                   threshold, selected, SwarmVars, OutputVars, FastaVars>>

\* lines 106-112 and 123: a record below the threshold is read; the loop is
\* left, whatever the file still holds
StatsBreak ==
    /\ pc = "stats_parse"
    /\ Len(stats_file) < MaxStatsLines
    /\ \E r \in RecordSet :
          /\ RecordOK(stats_file, r)
          /\ BelowThreshold(r.seed_abundance, threshold)
          /\ \E rest \in UnreadRecords(Append(stats_file, r)) :
                stats_file' = Append(stats_file, r) \o rest
    /\ pc' = "swarms_parse"
    /\ UNCHANGED <<seeds, global_seeds, StructVars, Finalizer, SampleVars,
                   threshold, selected, SwarmVars, OutputVars, FastaVars>>

\* lines 106 and 123: the file ends
StatsEOF ==
    /\ pc = "stats_parse"
    /\ pc' = "swarms_parse"
    /\ UNCHANGED <<seeds, global_seeds, StructVars, Finalizer, SampleVars, StatsVars,
                   SwarmVars, OutputVars, FastaVars>>

\* the numbers of samples for which the threshold is 1, 3/2 and 2
StatsSampleCounts == {20, 30, 40}

\* the state that per_sample_stats_parse leaves (lines 372-374)
InitStatsParse ==
    /\ pc = "stats_parse"
    /\ number_of_samples \in StatsSampleCounts
    /\ threshold = Threshold(number_of_samples)
    /\ selected \in SUBSET StatsSeeds
    /\ seeds = selected
    /\ stats_file = << >>
    /\ global_seeds = << >>
    /\ number_of_seeds = 0
    /\ per_sample_stats = << >>
    /\ previous_sample = number_of_samples
    /\ sample_seeds = {}
    /\ samples_of = << >>
    /\ InitStruct
    /\ InitSwarms
    /\ InitOutput
    /\ InitFasta

NextStats == StatsLine \/ StatsBreak \/ StatsEOF

SpecStats == InitStatsParse /\ [][NextStats]_vars

(* ------------------------------ swarms_parse ---------------------------- *)
SwarmAmplicons == 1..NumSwarmAmplicons

\* line 146: re.split(separator, line)[0::2], the tokens at even offsets
EvenTokens(line) == [k \in 1..((Len(line) + 1) \div 2) |-> line[2 * k - 1]]

\* line 147: re.split(separator, line)[1::2], the tokens at odd offsets
OddTokens(line) == [k \in 1..(Len(line) \div 2) |-> line[2 * k]]

\* the last amplicon of the line in the place of the first
LastAmplicon(amplicons) == amplicons[Len(amplicons)]

\* line 148: seed = amplicons[0]
FirstAmplicon(amplicons) == amplicons[1]

\* line 149: common = seeds_set & set(amplicons)
Common(cands, amplicons) == cands \cap Range(amplicons)

\* lines 152-154: zip(amplicons, abundances) written into the index, a later
\* pair overwriting an earlier one
IndexAbundances(index, amplicons, abundances) ==
    LET n    == IF Len(amplicons) < Len(abundances)
                THEN Len(amplicons) ELSE Len(abundances)
        keys == {amplicons[k] : k \in 1..n}
        last(a) == CHOOSE k \in 1..n :
                       /\ amplicons[k] = a
                       /\ \A m \in (k+1)..n : amplicons[m] # a
    IN  [a \in DOMAIN index \cup keys |->
            IF a \in keys THEN abundances[last(a)] ELSE index[a]]

\* lines 155-157: every candidate of the line is mapped to the line's seed
MapToSeed(gsm, common, seed) ==
    [c \in DOMAIN gsm \cup common |-> IF c \in common THEN seed ELSE gsm[c]]

\* the state of the loop of swarms_parse as a record
SwarmsState(sw, gsm, n, stop) ==
    [swarms |-> sw, global_seeds |-> gsm, number_of_seeds |-> n, stopped |-> stop]

\* lines 137-140
SwarmsInit(cands) == SwarmsState(<< >>, << >>, Cardinality(cands), FALSE)

\* lines 144-159: the loop body for one line; withStop = FALSE is the variant
\* of the loop that has no "if number_of_seeds == 0: break"
SwarmsStep(st, line, cands, withStop) ==
    LET amplicons  == EvenTokens(line)
        abundances == OddTokens(line)
        seed       == FirstAmplicon(amplicons)
        common     == Common(cands, amplicons)
        n          == IF common # {}
                      THEN st.number_of_seeds - Cardinality(common)
                      ELSE st.number_of_seeds
        sw         == IF common # {}
                      THEN IndexAbundances(st.swarms, amplicons, abundances)
                      ELSE st.swarms
        gsm        == IF common # {}
                      THEN MapToSeed(st.global_seeds, common, seed)
                      ELSE st.global_seeds
    IN  SwarmsState(sw, gsm, n, withStop /\ SeedsExhausted(n))

\* a line of the membership file: amplicon and abundance tokens in turn
RECURSIVE Tokens(_, _)
Tokens(amplicons, ab) ==
    IF amplicons = << >> THEN << >>
    ELSE << Head(amplicons), ab[Head(amplicons)] >> \o Tokens(Tail(amplicons), ab)

SwarmLineSet ==
    UNION {{Tokens(amplicons, ab) :
               amplicons \in {q \in [1..n -> SwarmAmplicons] :
                                 \A i, j \in 1..n : q[i] = q[j] => i = j},
               ab \in [SwarmAmplicons -> 1..MaxAbundance]} :
           n \in 1..MaxSwarmSize}

\* the abundances that the lines of a file give to amplicon a
AbundancesOf(file, a) ==
    UNION {{OddTokens(file[i])[k] :
               k \in {m \in DOMAIN OddTokens(file[i]) : EvenTokens(file[i])[m] = a}} :
           i \in DOMAIN file}

\* an amplicon has one abundance, whichever the lines that list it
SwarmLineOK(file, line) ==
    \A k \in DOMAIN EvenTokens(line) :
        AbundancesOf(file, EvenTokens(line)[k]) \subseteq {OddTokens(line)[k]}

RECURSIVE SwarmLinesOK(_, _)
SwarmLinesOK(file, rest) ==
    IF rest = << >> THEN TRUE
    ELSE /\ SwarmLineOK(file, Head(rest))
         /\ SwarmLinesOK(Append(file, Head(rest)), Tail(rest))

UnreadSwarms(file) ==
    {rest \in UNION {[1..n -> SwarmLineSet] : n \in 0..MaxUnread} :
        Len(file) + Len(rest) <= MaxSwarmLines /\ SwarmLinesOK(file, rest)}

CurrentSwarmsState == SwarmsState(swarms, global_seeds, number_of_seeds, FALSE)

SetSwarmsState(st) ==
    /\ swarms' = st.swarms
    /\ global_seeds' = st.global_seeds
    /\ number_of_seeds' = st.number_of_seeds

\* lines 144-159: a line is read, candidates are still to be located
SwarmsLine ==
    /\ pc = "swarms_parse"
    /\ Len(swarms_file) < MaxSwarmLines
    /\ \E line \in SwarmLineSet :
          /\ SwarmLineOK(swarms_file, line)
          /\ LET st == SwarmsStep(CurrentSwarmsState, line, seeds, TRUE)
             IN  /\ ~st.stopped
                 /\ SetSwarmsState(st)
                 /\ swarms_file' = Append(swarms_file, line)
    /\ UNCHANGED <<pc, seeds, struct_file, previous_cluster_id, global_seed,
                   has_a_local_seed, clusters, new_clusters,
                   new_clusters_with_abundance, new_stats, SampleVars, StatsVars,
                   OutputVars, FastaVars>>

\* lines 144-161: a line is read that leaves the counter at 0; the loop is
\* left and the two maps returned, whatever the file still holds
SwarmsBreak ==
    /\ pc = "swarms_parse"
    /\ Len(swarms_file) < MaxSwarmLines
    /\ \E line \in SwarmLineSet :
          /\ SwarmLineOK(swarms_file, line)
          /\ LET st == SwarmsStep(CurrentSwarmsState, line, seeds, TRUE)
             IN  /\ st.stopped
                 /\ SetSwarmsState(st)
                 /\ \E rest \in UnreadSwarms(Append(swarms_file, line)) :
                       swarms_file' = Append(swarms_file, line) \o rest
    /\ pc' = "struct_parse"
    /\ UNCHANGED <<seeds, struct_file, previous_cluster_id, global_seed,
                   has_a_local_seed, clusters, new_clusters,
                   new_clusters_with_abundance, new_stats, SampleVars, StatsVars,
                   OutputVars, FastaVars>>

\* lines 144 and 161: the file ends
SwarmsEOF ==
    /\ pc = "swarms_parse"
    /\ pc' = "struct_parse"
    /\ UNCHANGED <<seeds, global_seeds, StructVars, Finalizer, SampleVars,
                   StatsVars, SwarmVars, OutputVars, FastaVars>>

\* line 375: the candidates that stats_parse left
InitSwarmsParse ==
    /\ pc = "swarms_parse"
    /\ seeds \in SUBSET SwarmAmplicons
    /\ global_seeds = << >>
    /\ number_of_seeds = Cardinality(seeds)
    /\ InitCommon

NextSwarms == SwarmsLine \/ SwarmsBreak \/ SwarmsEOF

SpecSwarms == InitSwarmsParse /\ [][NextSwarms]_vars

(* --------------------- fasta_parse, one line at a time ------------------ *)
FastaAmplicons == 1..NumFastaAmplicons

\* the sub-clusters of one original cluster: owner[a] is the sub-cluster of
\* amplicon a (0: a is in no cleaved cluster), keyed by its smallest member
SubClustersOf(owner) ==
    LET group(g) == {a \in DOMAIN owner : owner[a] = g}
        groups   == SelectSeq(<< 1, 2 >>, LAMBDA g : group(g) # {})
    IN  [j \in DOMAIN groups |->
            [key |-> CHOOSE a \in group(groups[j]) : \A b \in group(groups[j]) : a <= b,
             val |-> group(groups[j])]]

SequenceLines == {SequenceLine(<< "A" >>), SequenceLine(<< "C" >>)}

FastaLineSet ==
    {Header(a, n) : a \in FastaAmplicons, n \in 1..MaxAbundance} \cup SequenceLines

\* the sequence lines read since the last header
RECURSIVE LinesOfLastEntry(_)
LinesOfLastEntry(file) ==
    IF file = << >> \/ file[Len(file)].header THEN 0
    ELSE 1 + LinesOfLastEntry(SubSeq(file, 1, Len(file) - 1))

\* a sequence file: a header opens an entry, each amplicon has one entry at
\* most, its header carries the amplicon's abundance, and an entry has
\* between one and MaxSequenceLines sequence lines
FastaLineOK(file, line) ==
    IF line.header
    THEN /\ \A i \in DOMAIN file : file[i].header => file[i].amplicon # line.amplicon
         /\ line.abundance = swarms[line.amplicon]
         /\ file # << >> => ~file[Len(file)].header
    ELSE /\ file # << >>
         /\ LinesOfLastEntry(file) < MaxSequenceLines

RECURSIVE FastaLinesOK(_, _)
FastaLinesOK(file, rest) ==
    IF rest = << >> THEN TRUE
    ELSE /\ FastaLineOK(file, Head(rest))
         /\ FastaLinesOK(Append(file, Head(rest)), Tail(rest))

\* the file ends after a sequence line
FastaComplete(file) == IF file = << >> THEN TRUE ELSE ~file[Len(file)].header

\* the lines that the scan never reads once it has stopped on a header
UnreadFasta(file) ==
    {rest \in UNION {[1..n -> FastaLineSet] : n \in 1..(MaxUnread + 1)} :
        /\ Len(file) + Len(rest) <= MaxFastaLines
        /\ FastaLinesOK(file, rest)
        /\ FastaComplete(file \o rest)}

\* lines 336-346: the output file is opened and the records printed
Emit(fa) ==
    LET out == EmitRecords(new_stats, fa, 1)
    IN  /\ written' = written \cup {"fas2"}
        /\ new_representatives' = out.records
        /\ pc' = IF out.ok THEN "done" ELSE "exit"

\* lines 316-322
FastaStart ==
    /\ pc = "fasta_parse"
    /\ IF new_stats = << >>
       THEN pc' = "fasta_abort" /\ UNCHANGED fasta
       ELSE pc' = "fasta_scan" /\ fasta' = FastaTargets(new_stats)
    /\ UNCHANGED <<seeds, global_seeds, StructVars, Finalizer, SampleVars, StatsVars,
                   SwarmVars, OutputVars, fasta_file, amplicon>>

\* lines 326-334: a line is read
FastaLine ==
    /\ pc = "fasta_scan"
    /\ Len(fasta_file) < MaxFastaLines
    /\ \E line \in FastaLineSet :
          /\ FastaLineOK(fasta_file, line)
          /\ LET st == FastaStep(FastaState(fasta, amplicon, FALSE), line,
                                 MinAbundance(new_stats))
             IN  /\ ~st.stopped
                 /\ fasta' = st.fasta
                 /\ amplicon' = st.amplicon
                 /\ fasta_file' = Append(fasta_file, line)
    /\ UNCHANGED <<pc, seeds, global_seeds, StructVars, Finalizer, SampleVars,
                   StatsVars, SwarmVars, OutputVars>>

\* lines 326-346: a header below min_abundance is read; the loop is left and
\* the records are printed
FastaBreak ==
    /\ pc = "fasta_scan"
    /\ Len(fasta_file) < MaxFastaLines
    /\ \E line \in FastaLineSet :
          /\ FastaLineOK(fasta_file, line)
          /\ LET st == FastaStep(FastaState(fasta, amplicon, FALSE), line,
                                 MinAbundance(new_stats))
             IN  /\ st.stopped
                 /\ fasta' = st.fasta
                 /\ amplicon' = st.amplicon
                 /\ \E rest \in UnreadFasta(Append(fasta_file, line)) :
                       fasta_file' = Append(fasta_file, line) \o rest
                 /\ Emit(st.fasta)
    /\ UNCHANGED <<seeds, global_seeds, StructVars, Finalizer, SampleVars,
                   StatsVars, SwarmVars, new_swarms>>

\* lines 326 and 336-346: the file ends and the records are printed
FastaEOF ==
    /\ pc = "fasta_scan"
    /\ FastaComplete(fasta_file)
    /\ Emit(fasta)
    /\ UNCHANGED <<seeds, global_seeds, StructVars, Finalizer, SampleVars,
                   StatsVars, SwarmVars, new_swarms, FastaVars>>

\* line 387: the state in which main calls fasta_parse, after the sorted
\* sub-clusters of one original cluster were printed to the two other files
InitFastaParse ==
    /\ pc = "fasta_parse"
    /\ seeds = {}
    /\ global_seeds = << >>
    /\ number_of_seeds = 0
    /\ struct_file = << >>
    /\ previous_cluster_id = 0
    /\ global_seed = 0
    /\ has_a_local_seed = FALSE
    /\ clusters = << >>
    /\ swarms \in [FastaAmplicons -> 1..MaxAbundance]
    /\ \E owner \in [FastaAmplicons -> 0..2] :
          new_clusters = IF SubClustersOf(owner) = << >> THEN << >>
                         ELSE << SubClustersOf(owner) >>
    /\ new_clusters_with_abundance = add_abundance_values(new_clusters, swarms)
    /\ new_stats = per_cluster_stats(new_clusters_with_abundance)
    /\ new_swarms = per_cluster_swarms(new_clusters_with_abundance, 1)
    /\ written = {"stats2", "swarms2"}
    /\ new_representatives = << >>
    /\ InitSample /\ InitStats /\ InitSwarms /\ InitFasta

NextFasta == FastaStart \/ FastaLine \/ FastaBreak \/ FastaEOF

SpecFasta == InitFastaParse /\ [][NextFasta]_vars

(* ------------------- the worked example of the cluster ------------------ *)
\* {A(100), B(40), C(40), D(5), E(1)} with the merge log (A,B), (B,C), (A,D),
\* (D,E): the edges are read in any order the log format allows, with any
\* set of candidates, all of them located in the cluster of A
Ex == [A |-> 1, B |-> 2, C |-> 3, D |-> 4, E |-> 5]

ExampleAmplicons == {Ex.A, Ex.B, Ex.C, Ex.D, Ex.E}

ExampleLog ==
    << Line(Ex.A, Ex.B, 1), Line(Ex.B, Ex.C, 1), Line(Ex.A, Ex.D, 1), Line(Ex.D, Ex.E, 1) >>

ExampleSwarms ==
    (Ex.A :> 100) @@ (Ex.B :> 40) @@ (Ex.C :> 40) @@ (Ex.D :> 5) @@ (Ex.E :> 1)

ExampleUnread(file) ==
    {rest \in UNION {[1..n -> Range(ExampleLog)] : n \in 0..(Len(ExampleLog) - Len(file))} :
        LogOK(file, rest)}

InitExample ==
    /\ pc = "struct_parse"
    /\ seeds \in SUBSET ExampleAmplicons
    /\ global_seeds = [c \in seeds |-> Ex.A]
    /\ number_of_seeds = Cardinality(seeds)
    /\ InitCommon

StructLineExample == \E line \in Range(ExampleLog) : StructLineOf(line)

StructBreakExample ==
    /\ pc = "struct_parse"
    /\ \E line \in Range(ExampleLog) :
          /\ LineOK(struct_file, line)
          /\ \E rest \in ExampleUnread(Append(struct_file, line)) :
                StructBreakOf(line, rest)

AddAbundanceExample == AddAbundanceOf(ExampleSwarms)

NextExample ==
    \/ StructLineExample
    \/ StructBreakExample
    \/ StructEOF
    \/ AddAbundanceExample
    \/ PerClusterStats
    \/ PerClusterSwarms
    \/ FastaParse

SpecExample == InitExample /\ [][NextExample]_vars

(* ======================================================================== *)
(*                               the claims                                 *)
(* ======================================================================== *)
Returned == pc # "struct_parse"

\* add_abundance_values has returned
Finalized ==
    pc \in {"per_cluster_stats", "per_cluster_swarms", "fasta_parse", "fasta_abort",
            "exit", "done"}

\* per_cluster_stats has returned
StatsEmitted == Finalized /\ pc # "per_cluster_stats"

FlaggedClusters(file) ==
    {c \in ClusterIds(file) : OriginalSeed(file, c) \in global_seeds_set}

\* the line that a step of the scan reads
LineRead == struct_file'[Len(struct_file) + 1]

ReadsLine == pc = "struct_parse" /\ Len(struct_file') > Len(struct_file)

\* every amplicon of members is in exactly one sub-cluster of d, and d holds
\* nothing else
CoversExactly(d, members) ==
    /\ \A a \in members : Cardinality({j \in DOMAIN d : a \in d[j].val}) = 1
    /\ UNION {d[j].val : j \in DOMAIN d} = members

\* C1: Partition completeness.  When struct_parse has returned, every cluster
\* of the merge log whose original seed is a recorded global seed has an entry
\* in the returned list, and the sub-clusters of that entry hold every
\* amplicon of the cluster's edges exactly once.
C1_PartitionCompleteness ==
    Returned =>
        \A c \in FlaggedClusters(struct_file) :
            \E i \in DOMAIN new_clusters :
                /\ DictHas(new_clusters[i], OriginalSeed(struct_file, c))
                /\ CoversExactly(new_clusters[i], MembersOf(struct_file, c))

\* the members of a sorted sub-cluster: a list of <<amplicon, abundance>>
MemberSet(swarm) == {swarm[k][1] : k \in DOMAIN swarm}

\* C2: Seed election.  Every sub-cluster that add_abundance_values produces is
\* keyed by the first element of its sorted member list; that element has the
\* maximum abundance of the sub-cluster and, among the members with that
\* abundance, the smallest identifier.
C2_SeedElection ==
    Finalized =>
        \A i \in DOMAIN new_clusters_with_abundance :
            \A j \in DOMAIN new_clusters_with_abundance[i] :
                LET e == new_clusters_with_abundance[i][j]
                IN  /\ e.key = e.val[1][1]
                    /\ \A k \in DOMAIN e.val :
                          /\ e.val[k][2] = swarms[e.val[k][1]]
                          /\ e.val[k][2] <= e.val[1][2]
                          /\ e.val[k][2] = e.val[1][2] => e.key <= e.val[k][1]

\* a sub-cluster in which two members tie for the maximum abundance
C2_TiedSeedElected ==
    /\ Finalized
    /\ \E i \in DOMAIN new_clusters_with_abundance :
          \E j \in DOMAIN new_clusters_with_abundance[i] :
              LET e == new_clusters_with_abundance[i][j]
              IN  /\ Len(e.val) >= 2
                  /\ e.val[1][2] = e.val[2][2]
                  /\ e.key = e.val[1][1]

\* C3: End-to-end example.  The cluster {A(100), B(40), C(40), D(5), E(1)},
\* merge log (A,B), (B,C), (A,D), (D,E), candidate set {B}, B -> A, yields
\* the two statistics records (3,106,A,100,1,0,0) and (2,80,B,40,0,0,0).
C3_EndToEndExample ==
    (StatsEmitted /\ struct_file = ExampleLog /\ seeds = {Ex.B}) =>
        new_stats = << <<3, 106, Ex.A, 100, 1, "0", "0">>,
                       <<2, 80, Ex.B, 40, 0, "0", "0">> >>

\* the replay of a whole log by the loop without the counter stop
RECURSIVE FullReplay(_, _, _)
FullReplay(st, file, k) ==
    IF k > Len(file) THEN st
    ELSE FullReplay(StructStep(st, file[k], seeds, FALSE), file, k + 1)

CandidateSonAtMostOnce(file) ==
    \A s \in seeds : Cardinality({i \in DOMAIN file : file[i].son = s}) <= 1

\* C4: Early termination is transparent.  For a log in which each candidate is
\* a son at most once, struct_parse returns the list that the replay of the
\* whole log without the stop returns.
C4_EarlyStopTransparent ==
    (Returned /\ CandidateSonAtMostOnce(struct_file)) =>
        new_clusters = FullReplay(StructInit(seeds), struct_file, 1).new_clusters

\* an edge of the current (flagged) cluster that is replayed, whose son is no
\* candidate, with father and son in none of the current sub-clusters
ReplaysUnattachable ==
    /\ ReadsLine
    /\ LineRead.cluster_id = previous_cluster_id
    /\ has_a_local_seed
    /\ ~SeedsExhausted(number_of_seeds)
    /\ LineRead.son \notin seeds
    /\ \A j \in DOMAIN clusters :
          LineRead.father \notin clusters[j].val /\ LineRead.son \notin clusters[j].val

\* C5: Unattachable edges are never silently dropped.  A step that replays an
\* edge matching no sub-cluster ends the run in the abort state.
C5_UnattachableAborts == [][ReplaysUnattachable => pc' = "abort"]_vars

\* the line read belongs to a cluster whose original seed is no global seed
ReadsNonFlagged ==
    /\ ReadsLine
    /\ OriginalSeed(struct_file', LineRead.cluster_id) \notin global_seeds_set

\* C6: Non-flagged clusters yield nothing.  A step on a line of a non-flagged
\* cluster creates no sub-cluster and replays nothing (the counter is left
\* alone); the returned list keeps its entries, and gets none but the saved
\* sub-clusters of the previous cluster, on the first line of the cluster.
C6_NonFlaggedYieldsNothing ==
    [][ReadsNonFlagged =>
          /\ clusters' = << >>
          /\ number_of_seeds' = number_of_seeds
          /\ IF LineRead.cluster_id = previous_cluster_id
             THEN new_clusters' = new_clusters
             ELSE new_clusters' \in {new_clusters, Append(new_clusters, clusters)}
          /\ \A i \in DOMAIN new_clusters' :
                \A j \in DOMAIN new_clusters'[i] :
                    new_clusters'[i][j].val \cap
                        MembersOf(struct_file', LineRead.cluster_id) = {}
       ]_vars

\* a non-flagged cluster is being read after a flagged one was saved
C6_NonFlaggedAfterFlagged ==
    /\ pc = "struct_parse"
    /\ struct_file # << >>
    /\ ~has_a_local_seed
    /\ clusters = << >>
    /\ Len(new_clusters) = 1
    /\ Cardinality(EdgesOf(struct_file, previous_cluster_id)) >= 2

\* the member that the sort key (-abundance, amplicon) puts first
Elected(members, ab) ==
    CHOOSE a \in members :
        \A b \in members : ab[a] > ab[b] \/ (ab[a] = ab[b] /\ a <= b)

\* C7: Seed-drift re-keying.  Each sub-cluster of new_clusters is held by the
\* result under the member that sorts first, with the same member set; when
\* that member differs from the key the old key is gone; the number of
\* sub-clusters of each original cluster is unchanged.
C7_SeedDriftRekeying ==
    Finalized =>
        \A i \in DOMAIN new_clusters :
            /\ Len(new_clusters_with_abundance[i]) = Len(new_clusters[i])
            /\ \A j \in DOMAIN new_clusters[i] :
                  LET e    == new_clusters[i][j]
                      seed == Elected(e.val, swarms)
                  IN  /\ DictHas(new_clusters_with_abundance[i], seed)
                      /\ MemberSet(DictGet(new_clusters_with_abundance[i], seed)) = e.val
                      /\ seed # e.key => ~DictHas(new_clusters_with_abundance[i], e.key)

Ceiling(num, den) == (num + den - 1) \div den

\* C8: Threshold boundary.  When per_sample_stats_parse returns, an amplicon
\* whose occurrence count is ceil(percentage * number_of_samples) is among
\* the candidates, and one whose count is one less is not.
C8_ThresholdBoundary ==
    pc = "stats_parse" =>
        LET c == Ceiling(PercentageNum * number_of_samples, PercentageDen)
        IN  \A a \in DOMAIN per_sample_stats :
                /\ per_sample_stats[a] = c => a \in seeds
                /\ per_sample_stats[a] = c - 1 => a \notin seeds

\* more than 20 samples: the boundary count is 2; one amplicon has it and is
\* kept, another was seen once and is dropped
C8_BoundaryReached ==
    /\ pc = "stats_parse"
    /\ number_of_samples > 20
    /\ \E a \in DOMAIN per_sample_stats : per_sample_stats[a] = 2 /\ a \in seeds
    /\ \E a \in DOMAIN per_sample_stats : per_sample_stats[a] = 1 /\ a \notin seeds

SortedByAbundance(file) ==
    \A i \in 1..(Len(file) - 1) : file[i].seed_abundance >= file[i + 1].seed_abundance

\* the variant that reads every record and applies the removal rule to the
\* records whose seed abundance is at least the threshold
RECURSIVE FullScan(_, _, _, _)
FullScan(cands, file, k, thr) ==
    IF k > Len(file) THEN cands
    ELSE FullScan(IF file[k].seed_abundance * thr.den >= thr.num
                  THEN EliminateGlobalSeed(cands, file[k], thr)
                  ELSE cands,
                  file, k + 1, thr)

\* C9: Early termination of stats_parse is transparent on sorted input.  For
\* a file sorted by non-increasing seed abundance the candidates left are
\* those the full scan with the filter leaves.
C9_EarlyStopOnSortedInput ==
    (pc = "swarms_parse" /\ SortedByAbundance(stats_file)) =>
        seeds = FullScan(selected, stats_file, 1, threshold)

\* the scan stopped on a sorted file before its last record, after it had
\* removed a candidate
C9_StoppedBeforeEnd ==
    /\ pc = "swarms_parse"
    /\ SortedByAbundance(stats_file)
    /\ \E k \in 1..(Len(stats_file) - 1) :
          BelowThreshold(stats_file[k].seed_abundance, threshold)
    /\ seeds # selected

\* the records read before the first record below the threshold
ReadBeforeStop(file, thr) ==
    {i \in DOMAIN file :
        \A k \in 1..i : file[k].seed_abundance * thr.den >= thr.num}

\* C10: Removal rule.  A candidate is removed if and only if a record read
\* before the first sub-threshold record has it as seed, more than one
\* unique amplicon and mass >= 2 * threshold + singletons; no candidate is
\* added.
C10_RemovalRule ==
    /\ seeds \subseteq selected
    /\ \A c \in selected :
          c \notin seeds <=>
              \E i \in ReadBeforeStop(stats_file, threshold) :
                  /\ stats_file[i].seed = c
                  /\ stats_file[i].cloud > 1
                  /\ stats_file[i].mass * threshold.den
                        >= 2 * threshold.num + stats_file[i].singletons * threshold.den

\* one candidate was removed; another, the seed of a record that was read
\* with two amplicons and too few reads, was kept
C10_RemovedAndKept ==
    /\ pc = "swarms_parse"
    /\ \E c \in selected : c \notin seeds
    /\ \E i \in ReadBeforeStop(stats_file, threshold) :
          /\ stats_file[i].seed \in seeds
          /\ stats_file[i].cloud > 1

\* C11: PrevalenceSelector result.  For a stream in which the records of a
\* sample follow one another, the candidates returned are exactly the
\* amplicons whose number of distinct samples (the samples holding a record
\* with that seed) is at least percentage * number of samples; the count kept
\* for an amplicon is that number of samples.
C11_PrevalenceByDistinctSamples ==
    pc = "stats_parse" =>
        /\ DOMAIN per_sample_stats = DOMAIN samples_of
        /\ \A a \in DOMAIN samples_of : per_sample_stats[a] = samples_of[a]
        /\ seeds = {a \in DOMAIN samples_of :
                       samples_of[a] * PercentageDen >= PercentageNum * number_of_samples}

\* the lines of a membership file that list amplicon a
LinesWith(file, a) == {i \in DOMAIN file : a \in Range(EvenTokens(file[i]))}

EachCandidateOnce(file, cands) ==
    \A c \in cands : Cardinality(LinesWith(file, c)) = 1

\* the lines that list at least one candidate
FlaggedLines(file, cands) ==
    {i \in DOMAIN file : Range(EvenTokens(file[i])) \cap cands # {}}

RECURSIVE FullScanSwarms(_, _, _, _)
FullScanSwarms(st, file, k, cands) ==
    IF k > Len(file) THEN st
    ELSE FullScanSwarms(SwarmsStep(st, file[k], cands, FALSE), file, k + 1, cands)

\* C12: MembershipIndexer result.  When every candidate is listed by exactly
\* one line of the membership file, swarms_parse maps each candidate to the
\* first amplicon of its line, the abundance index holds exactly the
\* amplicons of the lines that list a candidate, each with the abundance its
\* line gives it, and the scan of the whole file without the counter stop
\* returns the same two maps.
C12_MembershipIndex ==
    (pc = "struct_parse" /\ EachCandidateOnce(swarms_file, seeds)) =>
        LET flagged == FlaggedLines(swarms_file, seeds)
            full    == FullScanSwarms(SwarmsInit(seeds), swarms_file, 1, seeds)
        IN  /\ DOMAIN global_seeds = seeds
            /\ \A c \in seeds :
                  \A i \in LinesWith(swarms_file, c) :
                      global_seeds[c] = swarms_file[i][1]
            /\ DOMAIN swarms = UNION {Range(EvenTokens(swarms_file[i])) : i \in flagged}
            /\ \A i \in flagged :
                  \A k \in 1..(Len(swarms_file[i]) \div 2) :
                      swarms[swarms_file[i][2 * k - 1]] = swarms_file[i][2 * k]
            /\ full.swarms = swarms
            /\ full.global_seeds = global_seeds

\* two candidates located in two lines, one of them not the first amplicon of
\* its line, and the scan stopped before the last line of the file
C12_LocatedThenStopped ==
    /\ pc = "struct_parse"
    /\ EachCandidateOnce(swarms_file, seeds)
    /\ Cardinality(seeds) = 2
    /\ Cardinality(FlaggedLines(swarms_file, seeds)) = 2
    /\ \E c \in seeds : global_seeds[c] # c
    /\ Len(swarms_file) \notin FlaggedLines(swarms_file, seeds)

\* C13: MissingAbundance is fatal and leaves no output.  The step of
\* add_abundance_values on an index that lacks a member of a sub-cluster ends
\* the run in the abort state with no output file written and no sorted
\* sub-cluster returned; and whenever an output file has been written,
\* add_abundance_values had returned with every member in the index.
C13_MissingAbundanceFatal ==
    [][/\ (pc = "add_abundance_values" /\ MissingAbundance(new_clusters, swarms')) =>
             /\ pc' = "abort"
             /\ written = {}
             /\ written' = {}
             /\ new_clusters_with_abundance' = << >>
       /\ written' # {} =>
             /\ Finalized'
             /\ ~MissingAbundance(new_clusters', swarms')
             /\ Len(new_clusters_with_abundance') = Len(new_clusters')
      ]_vars

\* the run aborted on an original cluster of two sub-clusters, one member of
\* which is not in the abundance index
C13_AbortedOnMissing ==
    /\ pc = "abort"
    /\ MissingAbundance(new_clusters, swarms)
    /\ \E i \in DOMAIN new_clusters : Len(new_clusters[i]) >= 2
    /\ DOMAIN swarms # {}

SonAtMostOnce(file) ==
    \A a \in Amplicons : Cardinality({i \in DOMAIN file : file[i].son = a}) <= 1

PairwiseDisjoint(d) ==
    \A i, j \in DOMAIN d : i # j => d[i].val \cap d[j].val = {}

SubClustersBefore ==
    IF LineRead.cluster_id = previous_cluster_id
    THEN clusters
    ELSE << [key |-> LineRead.father, val |-> {LineRead.father}] >>

\* an edge of a flagged cluster is replayed
ReplaysEdge ==
    /\ ReadsLine
    /\ pc' = "struct_parse"
    /\ has_a_local_seed'

\* the father of the line read is a candidate that an earlier edge of the
\* cluster had as its son
FatherWasCandidateSon ==
    /\ LineRead.cluster_id = previous_cluster_id
    /\ LineRead.father \in seeds
    /\ \E i \in EdgesOf(struct_file, previous_cluster_id) :
          struct_file[i].son = LineRead.father

\* C15: A candidate son starts its own sub-cluster.  The replay of an edge
\* whose son is a candidate leaves a sub-cluster keyed by son that holds son
\* alone, and every other sub-cluster as it was (son is not added to
\* father's).  The replay of a later edge whose father is that candidate and
\* whose son is no candidate adds the son to the candidate's sub-cluster and
\* changes no other sub-cluster.
C15_CandidateSonStartsSubCluster ==
    [][ReplaysEdge =>
          /\ LineRead.son \in seeds =>
                /\ DictHas(clusters', LineRead.son)
                /\ DictGet(clusters', LineRead.son) = {LineRead.son}
                /\ DictKeys(clusters') = DictKeys(SubClustersBefore) \cup {LineRead.son}
                /\ \A j \in DOMAIN SubClustersBefore :
                      SubClustersBefore[j].key # LineRead.son =>
                          clusters'[j] = SubClustersBefore[j]
          /\ (LineRead.son \notin seeds /\ FatherWasCandidateSon) =>
                /\ DictHas(clusters', LineRead.father)
                /\ LineRead.son \in DictGet(clusters', LineRead.father)
                /\ \A j \in DOMAIN clusters :
                      clusters[j].key # LineRead.father => clusters'[j] = clusters[j]
       ]_vars

\* d with amplicon a added to its j-th sub-cluster
AddedTo(d, j, a) == [d EXCEPT ![j].val = @ \cup {a}]

\* C16: Edge attachment rule for a non-candidate son.  The replay of an edge
\* whose son is no candidate adds son to exactly one sub-cluster that holds
\* father, if there is one, and changes nothing else; otherwise, if some
\* sub-cluster holds son, it adds father to one sub-cluster that holds son
\* and changes nothing else.
C16_EdgeAttachment ==
    [][(ReplaysEdge /\ LineRead.son \notin seeds) =>
          LET d      == SubClustersBefore
              father == LineRead.father
              son    == LineRead.son
          IN  IF \E j \in DOMAIN d : father \in d[j].val
              THEN \E j \in DOMAIN d :
                      father \in d[j].val /\ clusters' = AddedTo(d, j, son)
              ELSE (\E j \in DOMAIN d : son \in d[j].val) =>
                      \E j \in DOMAIN d :
                          son \in d[j].val /\ clusters' = AddedTo(d, j, father)
       ]_vars

\* the sub-clusters that per_cluster_stats is given, as a set
SubClusters(nca) ==
    UNION {{nca[i][j] : j \in DOMAIN nca[i]} : i \in DOMAIN nca}

RECURSIVE NumberOfSubClusters(_, _)
NumberOfSubClusters(nca, i) ==
    IF i > Len(nca) THEN 0 ELSE Len(nca[i]) + NumberOfSubClusters(nca, i + 1)

RECURSIVE Total(_)
Total(swarm) == IF swarm = << >> THEN 0 ELSE Head(swarm)[2] + Total(Tail(swarm))

SortedHeaders(file) ==
    \A i, j \in DOMAIN file :
        (i < j /\ file[i].header /\ file[j].header) =>
            file[i].abundance >= file[j].abundance

HasEntry(file, a) == \E i \in DOMAIN file : file[i].header /\ file[i].amplicon = a

\* the sequence lines from line k up to the next header, end to end
RECURSIVE SequenceFrom(_, _)
SequenceFrom(file, k) ==
    IF k > Len(file) \/ file[k].header THEN << >>
    ELSE file[k].sequence \o SequenceFrom(file, k + 1)

\* the whole sequence of amplicon a in the file
SequenceOf(file, a) ==
    SequenceFrom(file, 1 + CHOOSE i \in DOMAIN file :
                               file[i].header /\ file[i].amplicon = a)

\* C18: Representative sequences.  For a sequence file with headers in
\* non-increasing order of abundance that has an entry for every seed,
\* fasta_parse ends normally and prints one record per statistics record, in
\* their order: the seed, the total abundance of its sub-cluster, and all the
\* sequence lines of the seed's entry end to end.
C18_RepresentativeSequences ==
    (/\ pc \in {"done", "exit"}
     /\ SortedHeaders(fasta_file)
     /\ \A k \in DOMAIN new_stats : HasEntry(fasta_file, new_stats[k][3])) =>
        /\ pc = "done"
        /\ new_representatives =
              [k \in DOMAIN new_stats |->
                  [amplicon |-> new_stats[k][3],
                   abundance |-> new_stats[k][2],
                   sequence |-> SequenceOf(fasta_file, new_stats[k][3])]]

=============================================================================
